---- MODULE Spec2Model ----
(***************************************************************************)
(* State-machine model of the yatube "posts" application: the Post,        *)
(* Comment and Follow tables, the view handlers of posts/views.py, the     *)
(* pager, and the render cache of the index listing.                       *)
(***************************************************************************)
EXTENDS Integers, Sequences, FiniteSets, TLC

(***************************************************************************)
(* Bounds of the model.                                                    *)
(***************************************************************************)
\* Largest primary key the Post table hands out (rows ever created).
MaxPosts == 2
\* Largest primary key the Comment table hands out.
MaxComments == 2
\* Largest number of rows the Follow table holds.
MaxFollows == 3
\* Number of request-handling threads that can be inside profile_follow.
NumWorkers == 2
\* Seconds that pass in one step of the clock.
TickSeconds == 10
\* Largest listing the pagination specification draws.
MaxListing == 23

(***************************************************************************)
(* Program constants.                                                      *)
(***************************************************************************)
\* settings.PAGE_NUM, the page size handed to Paginator.
PAGE_NUM == 10
\* Lifetime, in seconds, of the cached index listing.
CACHE_TTL == 20

\* The User table.  The view layer never creates or deletes users.
Users == {"username", "another_username"}
\* request.user of a client that is not logged in.
AnonymousUser == "AnonymousUser"
\* A username that matches no row of the User table.
UnknownUser == "nobody"
\* The Group table (primary keys); Group rows are read-only for the views.
Groups == {1}
\* Group.slug of each row of the Group table.
SlugOf(g) == "test-slug"
\* A slug that matches no Group.
UnknownSlug == "no-such-slug"
\* NULL in Post.group.
NoGroup == 0
\* A group choice that is not a primary key of the Group table.
BadGroup == 9
\* ImageField value of a post without an image.
NoImage == ""

Workers == 1..NumWorkers

VARIABLES
    posts,          \* the Post table: a set of rows
    nextPostId,     \* next primary key (and creation instant) of Post
    comments,       \* the Comment table
    nextCommentId,  \* next primary key of Comment
    follows,        \* the Follow table: per (user, author), its number of rows
    pending,        \* per worker: the get_or_create that found no row yet
    cache,          \* the render cache of the index listing
    response        \* the response to the last finished request

vars == <<posts, nextPostId, comments, nextCommentId, follows,
          pending, cache, response>>

db == <<posts, nextPostId, comments, nextCommentId, follows>>

(***************************************************************************)
(* URLs (django.urls.reverse) and responses.                               *)
(***************************************************************************)
Url(name, post_id, username, slug) ==
    [name |-> name, post_id |-> post_id, username |-> username, slug |-> slug]

NoUrl == Url("", 0, "", "")
\* reverse("posts:profile", username) and reverse("posts:post_detail", post_id)
ProfileUrl(username) == Url("posts:profile", 0, username, "")
DetailUrl(post_id) == Url("posts:post_detail", post_id, "", "")
LOGIN_URL == Url("users:login", 0, "", "")

NoPageObj == [number |-> 0, num_pages |-> 0, object_list |-> <<>>]

Response(status, template, location, next, page_obj, content) ==
    [status |-> status, template |-> template, location |-> location,
     next |-> next, page_obj |-> page_obj, group |-> NoGroup, author |-> "",
     content |-> content, view |-> "", user |-> ""]

\* The response as the client gets it: with the view that made it
\* (resolver_match.view_name) and the user of the request.
Sent(view, user, resp) == [resp EXCEPT !.view = view, !.user = user]

\* django.shortcuts.redirect(to)
redirect(to) == Response(302, "", to, NoUrl, NoPageObj, <<>>)
\* django.shortcuts.render(request, template, context)
render(template, page_obj) == Response(200, template, NoUrl, NoUrl, page_obj, <<>>)
\* Http404 raised by get_object_or_404
NotFound == Response(404, "", NoUrl, NoUrl, NoPageObj, <<>>)
\* An exception that escapes the view
ServerError == Response(500, "", NoUrl, NoUrl, NoPageObj, <<>>)
\* The response of login_required to an anonymous client
LoginRedirect(path) == Response(302, "", LOGIN_URL, path, NoPageObj, <<>>)

NoResponse == Response(0, "", NoUrl, NoUrl, NoPageObj, <<>>)

(***************************************************************************)
(* Query sets.                                                             *)
(***************************************************************************)
\* Post.Meta.ordering = ["-pub_date"]: the rows of S, newest first.
RECURSIVE OrderedPosts(_)
OrderedPosts(S) ==
    IF S = {} THEN <<>>
    ELSE LET newest == CHOOSE p \in S : \A q \in S : q.pub_date <= p.pub_date
         IN  <<newest>> \o OrderedPosts(S \ {newest})

\* n copies of x, one per joined row.
RECURSIVE Repeat(_, _)
Repeat(x, n) == IF n = 0 THEN <<>> ELSE <<x>> \o Repeat(x, n - 1)

\* Follow.objects.filter(user=user, author=author).count(); no view reads a
\* Follow row's primary key, so the table is kept as a bag of (user, author).
FollowCount(user, author) ==
    IF <<user, author>> \in DOMAIN follows THEN follows[<<user, author>>] ELSE 0

\* Follow.objects.count()
RECURSIVE SumFollows(_)
SumFollows(pairs) ==
    IF pairs = {} THEN 0
    ELSE LET pr == CHOOSE x \in pairs : TRUE
         IN  follows[pr] + SumFollows(pairs \ {pr})
TotalFollows == SumFollows(Users \X Users)

\* Post.objects.filter(author__following__user=user): the inner join of Post
\* with Follow on Follow.author = Post.author, one result row per matching
\* Follow row, in Post's default ordering.
JoinMatchesReversed(user, post) == FollowCount(post.author, user)
\* author__following__user=user: the Follow rows joined to a post are those
\* whose author is the post's author and whose user is the given user.
JoinMatches(user, post) == FollowCount(user, post.author)

RECURSIVE JoinFollowing(_, _)
JoinFollowing(ordered, user) ==
    IF ordered = <<>> THEN <<>>
    ELSE Repeat(Head(ordered), JoinMatches(user, Head(ordered)))
         \o JoinFollowing(Tail(ordered), user)

FeedOf(user) == JoinFollowing(OrderedPosts(posts), user)

\* group.posts.all()
GroupPosts(g) == OrderedPosts({p \in posts : p.group = g})
\* author.posts.all()
AuthorPosts(a) == OrderedPosts({p \in posts : p.author = a})

(***************************************************************************)
(* The pager: Paginator(post_list, PAGE_NUM).get_page(request.GET["page"]) *)
(***************************************************************************)
DigitChars == {"0", "1", "2", "3", "4", "5", "6", "7", "8", "9"}
DigitVal(c) ==
    CASE c = "0" -> 0 [] c = "1" -> 1 [] c = "2" -> 2 [] c = "3" -> 3
      [] c = "4" -> 4 [] c = "5" -> 5 [] c = "6" -> 6 [] c = "7" -> 7
      [] c = "8" -> 8 [] c = "9" -> 9

RECURSIVE DigitsValue(_)
DigitsValue(s) ==
    IF s = <<>> THEN 0
    ELSE 10 * DigitsValue(SubSeq(s, 1, Len(s) - 1)) + DigitVal(s[Len(s)])

AllDigits(s) == s # <<>> /\ \A i \in 1..Len(s) : s[i] \in DigitChars

\* int(page_number) of the query-string value, a sequence of characters; the
\* missing parameter (None) and the empty string are both <<>>, and both
\* make int() raise.
PyInt(s) ==
    IF AllDigits(s) THEN [ok |-> TRUE, value |-> DigitsValue(s)]
    ELSE IF s # <<>> /\ s[1] \in {"-", "+"} /\ AllDigits(Tail(s))
         THEN [ok |-> TRUE,
               value |-> IF s[1] = "-" THEN 0 - DigitsValue(Tail(s))
                         ELSE DigitsValue(Tail(s))]
         ELSE [ok |-> FALSE, value |-> 0]

\* Paginator.num_pages (orphans = 0, allow_empty_first_page = True)
NumPages(count, per_page) ==
    IF count = 0 THEN 1 ELSE (count + per_page - 1) \div per_page

\* Paginator.get_page: PageNotAnInteger gives page 1, EmptyPage (a number
\* below 1 or above num_pages) gives the last page.
GetPageNumber(page_number, count, per_page) ==
    LET n == PyInt(page_number)
    IN  IF ~n.ok THEN 1
        ELSE IF n.value < 1 \/ n.value > NumPages(count, per_page)
             THEN NumPages(count, per_page)
             ELSE n.value

PageSliceInclusive(post_list, number, per_page) ==
    LET bottom == (number - 1) * per_page
        top    == IF bottom + per_page + 1 >= Len(post_list) THEN Len(post_list)
                  ELSE bottom + per_page + 1
    IN  SubSeq(post_list, bottom + 1, top)
\* Paginator.page(number): object_list[bottom:top]
PageSlice(post_list, number, per_page) ==
    LET bottom == (number - 1) * per_page
        top    == IF bottom + per_page >= Len(post_list) THEN Len(post_list)
                  ELSE bottom + per_page
    IN  SubSeq(post_list, bottom + 1, top)

pager(page_number, post_list) ==
    LET number == GetPageNumber(page_number, Len(post_list), PAGE_NUM)
    IN  [number      |-> number,
         num_pages   |-> NumPages(Len(post_list), PAGE_NUM),
         object_list |-> PageSlice(post_list, number, PAGE_NUM)]

(***************************************************************************)
(* Forms.  A request carries the submitted fields; a GET (or a POST with   *)
(* no fields) leaves the form unbound.                                     *)
(***************************************************************************)
Request(method, text, group, image, author) ==
    [method |-> method, text |-> text, group |-> group, image |-> image,
     author |-> author]

\* request.POST or None
IsBound(req) == req.method = "POST"

\* PostForm(request.POST or None, files=...).is_valid(): text is required,
\* group is optional but must be a Group, image is optional.
PostFormValid(req) ==
    /\ IsBound(req)
    /\ req.text # ""
    /\ req.group \in Groups \cup {NoGroup}

\* CommentForm(request.POST or None).is_valid(): text is required.
CommentFormValid(req) == IsBound(req) /\ req.text # ""

(***************************************************************************)
(* Initial state: empty tables, no request inside get_or_create, cold      *)
(* cache.                                                                  *)
(***************************************************************************)
Idle == [busy |-> FALSE, user |-> "", author |-> ""]
NoCache == [valid |-> FALSE, content |-> <<>>, ttl |-> 0]

Init ==
    /\ posts = {}
    /\ nextPostId = 1
    /\ comments = {}
    /\ nextCommentId = 1
    /\ follows = [pr \in Users \X Users |-> 0]
    /\ pending = [w \in Workers |-> Idle]
    /\ cache = NoCache
    /\ response = NoResponse

(***************************************************************************)
(* Access checks.                                                          *)
(***************************************************************************)
NeedsLoginNever(user) == FALSE
\* @login_required: the view runs only for an authenticated user.
NeedsLogin(user) == user = AnonymousUser

IsSelfNever(user, author) == FALSE
\* profile_follow: request.user != author guards get_or_create.
IsSelf(user, author) == user = author

IsAuthorAlways(user, post) == TRUE
\* post_edit: author != post.author redirects to the detail page.
IsAuthor(user, post) == user = post.author

(***************************************************************************)
(* Listing views.                                                          *)
(***************************************************************************)
\* The bytes of the listing part of the index page made from a page object.
RenderListing(page_obj) == page_obj.object_list

CacheHitNever == FALSE
\* The cached listing is served while it has time to live.
CacheHit == cache.valid /\ cache.ttl > 0

\* index: all posts, paged; the listing part of the page comes from the
\* render cache when it holds one, and is rendered and stored otherwise.
index(user, page) ==
    LET page_obj == pager(page, OrderedPosts(posts))
        content  == IF CacheHit THEN cache.content ELSE RenderListing(page_obj)
    IN  /\ response' = Sent("index", user, [render("posts/index.html", page_obj)
                            EXCEPT !.content = content])
        /\ cache' = IF CacheHit THEN cache
                    ELSE [valid |-> TRUE, content |-> content, ttl |-> CACHE_TTL]
        /\ UNCHANGED <<db, pending>>

group_posts(user, slug, page) ==
    /\ IF \E g \in Groups : SlugOf(g) = slug
       THEN LET group == CHOOSE g \in Groups : SlugOf(g) = slug
            IN  response' = Sent("group_posts", user,
                                [render("posts/group_list.html",
                                    pager(page, GroupPosts(group)))
                                 EXCEPT !.group = group])
       ELSE response' = Sent("group_posts", user, NotFound)
    /\ UNCHANGED <<db, pending, cache>>

profile(user, username, page) ==
    /\ IF username \in Users
       THEN response' = Sent("profile", user, [render("posts/profile.html",
                                pager(page, AuthorPosts(username)))
                             EXCEPT !.author = username])
       ELSE response' = Sent("profile", user, NotFound)
    /\ UNCHANGED <<db, pending, cache>>

post_detail(user, post_id) ==
    /\ IF \E p \in posts : p.id = post_id
       THEN response' = Sent("post_detail", user,
                            render("posts/post_detail.html", NoPageObj))
       ELSE response' = Sent("post_detail", user, NotFound)
    /\ UNCHANGED <<db, pending, cache>>

(***************************************************************************)
(* Post create / edit, comments.                                           *)
(***************************************************************************)
NewPostSpoofed(user, req) ==
    [id |-> nextPostId, text |-> req.text, pub_date |-> nextPostId,
     author |-> req.author, group |-> req.group, image |-> req.image]
\* The row new_post.save() inserts: form fields, author = request.user,
\* pub_date assigned by the server (auto_now_add).
NewPost(user, req) ==
    [id |-> nextPostId, text |-> req.text, pub_date |-> nextPostId,
     author |-> user, group |-> req.group, image |-> req.image]

post_create(user, req) ==
    IF NeedsLogin(user)
    THEN /\ response' = Sent("post_create", user,
                            LoginRedirect(Url("posts:post_create", 0, "", "")))
         /\ UNCHANGED <<db, pending, cache>>
    ELSE IF PostFormValid(req)
    THEN /\ nextPostId <= MaxPosts
         /\ posts' = posts \cup {NewPost(user, req)}
         /\ nextPostId' = nextPostId + 1
         /\ response' = Sent("post_create", user, redirect(ProfileUrl(user)))
         /\ UNCHANGED <<comments, nextCommentId, follows,
                        pending, cache>>
    ELSE /\ response' = Sent("post_create", user,
                            render("posts/create_post.html", NoPageObj))
         /\ UNCHANGED <<db, pending, cache>>

EditedPostTouched(post, req) ==
    [post EXCEPT !.text = req.text, !.group = req.group,
                 !.image = IF req.image = NoImage THEN post.image ELSE req.image,
                 !.pub_date = nextPostId]
\* form.save() on PostForm(instance=post): the form's fields are written,
\* an edit without an upload keeps the stored image.
EditedPost(post, req) ==
    [post EXCEPT !.text = req.text, !.group = req.group,
                 !.image = IF req.image = NoImage THEN post.image ELSE req.image]

post_edit(user, post_id, req) ==
    IF NeedsLogin(user)
    THEN /\ response' = Sent("post_edit", user,
                            LoginRedirect(Url("posts:post_edit", post_id, "", "")))
         /\ UNCHANGED <<db, pending, cache>>
    ELSE IF ~(\E p \in posts : p.id = post_id)
    THEN /\ response' = Sent("post_edit", user, NotFound)
         /\ UNCHANGED <<db, pending, cache>>
    ELSE LET post == CHOOSE p \in posts : p.id = post_id
         IN  IF ~IsAuthor(user, post)
             THEN /\ response' = Sent("post_edit", user,
                                     redirect(DetailUrl(post_id)))
                  /\ UNCHANGED <<db, pending, cache>>
             ELSE IF PostFormValid(req)
             THEN /\ posts' = (posts \ {post}) \cup {EditedPost(post, req)}
                  /\ response' = Sent("post_edit", user,
                                     redirect(DetailUrl(post_id)))
                  /\ UNCHANGED <<nextPostId, comments, nextCommentId, follows,
                                 pending, cache>>
             ELSE /\ response' = Sent("post_edit", user,
                                     render("posts/update_post.html", NoPageObj))
                  /\ UNCHANGED <<db, pending, cache>>

NewCommentOnFirstPost(user, post_id, req) ==
    [id |-> nextCommentId, post |-> 1, author |-> user,
     text |-> req.text, created |-> nextCommentId]
\* The row comment.save() inserts.
NewComment(user, post_id, req) ==
    [id |-> nextCommentId, post |-> post_id, author |-> user,
     text |-> req.text, created |-> nextCommentId]

add_comment(user, post_id, req) ==
    IF NeedsLogin(user)
    THEN /\ response' = Sent("add_comment", user,
                            LoginRedirect(Url("posts:add_comment", post_id, "", "")))
         /\ UNCHANGED <<db, pending, cache>>
    ELSE IF ~(\E p \in posts : p.id = post_id)
    THEN /\ response' = Sent("add_comment", user, NotFound)
         /\ UNCHANGED <<db, pending, cache>>
    ELSE IF CommentFormValid(req)
    THEN /\ nextCommentId <= MaxComments
         /\ comments' = comments \cup {NewComment(user, post_id, req)}
         /\ nextCommentId' = nextCommentId + 1
         /\ response' = Sent("add_comment", user, redirect(DetailUrl(post_id)))
         /\ UNCHANGED <<posts, nextPostId, follows, pending, cache>>
    ELSE /\ response' = Sent("add_comment", user, redirect(DetailUrl(post_id)))
         /\ UNCHANGED <<db, pending, cache>>

(***************************************************************************)
(* Follow / unfollow and the feed.                                         *)
(***************************************************************************)
follow_index(user, page) ==
    /\ IF NeedsLogin(user)
       THEN response' = Sent("follow_index", user,
                            LoginRedirect(Url("posts:follow_index", 0, "", "")))
       ELSE response' = Sent("follow_index", user,
                            render("posts/follow.html", pager(page, FeedOf(user))))
    /\ UNCHANGED <<db, pending, cache>>

\* profile_follow up to and including the SELECT of get_or_create, run by
\* worker w.  One row found: done.  Several rows found: get() raises
\* MultipleObjectsReturned.  No row found: the INSERT follows as a separate
\* statement (profile_follow_create), and other requests may run in between.
profile_follow(w, user, username) ==
    /\ ~pending[w].busy
    /\ IF NeedsLogin(user)
       THEN /\ response' = Sent("profile_follow", user,
                               LoginRedirect(Url("posts:profile_follow", 0, username, "")))
            /\ UNCHANGED <<db, pending, cache>>
       ELSE IF username \notin Users
       THEN /\ response' = Sent("profile_follow", user, NotFound)
            /\ UNCHANGED <<db, pending, cache>>
       ELSE IF IsSelf(user, username)
       THEN /\ response' = Sent("profile_follow", user,
                               redirect(ProfileUrl(username)))
            /\ UNCHANGED <<db, pending, cache>>
       ELSE IF FollowCount(user, username) = 1
       THEN /\ response' = Sent("profile_follow", user,
                               redirect(ProfileUrl(username)))
            /\ UNCHANGED <<db, pending, cache>>
       ELSE IF FollowCount(user, username) > 1
       THEN /\ response' = Sent("profile_follow", user, ServerError)
            /\ UNCHANGED <<db, pending, cache>>
       ELSE /\ pending' = [pending EXCEPT ![w] =
                              [busy |-> TRUE, user |-> user, author |-> username]]
            /\ UNCHANGED <<db, cache, response>>

\* The INSERT of get_or_create and the rest of profile_follow.  The Follow
\* model declares no uniqueness, so the INSERT always succeeds.
profile_follow_create(w) ==
    /\ pending[w].busy
    /\ TotalFollows < MaxFollows
    /\ follows' = [follows EXCEPT ![<<pending[w].user, pending[w].author>>] = @ + 1]
    /\ pending' = [pending EXCEPT ![w] = Idle]
    /\ response' = Sent("profile_follow", pending[w].user,
                       redirect(ProfileUrl(pending[w].author)))
    /\ UNCHANGED <<posts, nextPostId, comments, nextCommentId, cache>>

DeleteFollowsOfUser(user, author) ==
    [pr \in Users \X Users |-> IF pr[1] = user THEN 0 ELSE follows[pr]]
\* Follow.objects.filter(user=user, author=author).delete(): the table
\* without the rows of that pair.
DeleteFollows(user, author) == [follows EXCEPT ![<<user, author>>] = 0]

profile_unfollow_unchecked(user, username) ==
    IF NeedsLogin(user)
    THEN /\ response' = Sent("profile_unfollow", user,
                            LoginRedirect(Url("posts:profile_unfollow", 0, username, "")))
         /\ UNCHANGED <<db, pending, cache>>
    ELSE /\ follows' = DeleteFollows(user, username)
         /\ response' = Sent("profile_unfollow", user,
                            redirect(ProfileUrl(username)))
         /\ UNCHANGED <<posts, nextPostId, comments, nextCommentId,  pending, cache>>
profile_unfollow(user, username) ==
    IF NeedsLogin(user)
    THEN /\ response' = Sent("profile_unfollow", user,
                            LoginRedirect(Url("posts:profile_unfollow", 0, username, "")))
         /\ UNCHANGED <<db, pending, cache>>
    ELSE IF username \notin Users
    THEN /\ response' = Sent("profile_unfollow", user, NotFound)
         /\ UNCHANGED <<db, pending, cache>>
    ELSE /\ follows' = DeleteFollows(user, username)
         /\ response' = Sent("profile_unfollow", user,
                            redirect(ProfileUrl(username)))
         /\ UNCHANGED <<posts, nextPostId, comments, nextCommentId,  pending, cache>>

(***************************************************************************)
(* Operations outside the views: administrative deletion, the cache.       *)
(***************************************************************************)
\* Post.objects.all().delete(); Comment.post cascades.
DeleteAllPosts ==
    /\ posts # {}
    /\ posts' = {}
    /\ comments' = {}
    /\ UNCHANGED <<nextPostId, nextCommentId, follows, pending,
                   cache, response>>

\* cache.clear()
CacheClear ==
    /\ cache.valid
    /\ cache' = NoCache
    /\ UNCHANGED <<db, pending, response>>

\* Time passes; a cached listing whose time to live is over is gone.
Tick ==
    /\ cache.valid
    /\ cache' = IF cache.ttl > TickSeconds
                THEN [cache EXCEPT !.ttl = cache.ttl - TickSeconds]
                ELSE NoCache
    /\ UNCHANGED <<db, pending, response>>

(***************************************************************************)
(* Inputs.                                                                 *)
(***************************************************************************)
Clients == Users \cup {AnonymousUser}
Usernames == Users \cup {UnknownUser}
Slugs == {SlugOf(g) : g \in Groups} \cup {UnknownSlug}
PostIds == 1..(MaxPosts + 1)

\* A GET, two valid submissions, a submission without text and one naming a
\* group that does not exist.  Each also carries an "author" field, which
\* is no field of either form.
Submissions(spoof) ==
    {Request("GET", "", NoGroup, NoImage, spoof),
     Request("POST", "text", NoGroup, NoImage, spoof),
     Request("POST", "edited", 1, "image.gif", spoof),
     Request("POST", "", 1, NoImage, spoof),
     Request("POST", "text", BadGroup, NoImage, spoof)}
Requests == UNION {Submissions(a) : a \in Users}
\* The same without a choice of the "author" field.
FormRequests == Submissions("username")
\* The submissions of a client that only ever posts one thing.
PlainRequests ==
    {Request("GET", "", NoGroup, NoImage, "username"),
     Request("POST", "text", NoGroup, NoImage, "username")}
\* Comment submissions: a GET, one with a text and one without.
CommentRequests ==
    {Request("GET", "", NoGroup, NoImage, "username"),
     Request("POST", "text", NoGroup, NoImage, "username"),
     Request("POST", "", NoGroup, NoImage, "username")}
PageParams == {<<>>, <<"2">>}

(***************************************************************************)
(* The views behind the login, the detail page and the uncached listings,  *)
(* requested by one logged-in client and by a guest.                       *)
(***************************************************************************)
Visitors == {"username", AnonymousUser}

Next ==
    \/ \E u \in Visitors, slug \in Slugs, page \in PageParams :
           group_posts(u, slug, page)
    \/ \E u \in Visitors, name \in Usernames, page \in PageParams :
           profile(u, name, page)
    \/ \E u \in Visitors, id \in PostIds : post_detail(u, id)
    \/ \E u \in Visitors, req \in PlainRequests : post_create(u, req)
    \/ \E u \in Visitors, id \in PostIds, req \in PlainRequests :
           post_edit(u, id, req)
    \/ \E u \in Visitors, id \in PostIds, req \in PlainRequests :
           add_comment(u, id, req)
    \/ \E u \in Visitors, page \in PageParams : follow_index(u, page)
    \/ \E w \in Workers, u \in Visitors, name \in Usernames :
           profile_follow(w, u, name)
    \/ \E w \in Workers : profile_follow_create(w)
    \/ \E u \in Visitors, name \in Usernames : profile_unfollow(u, name)

Spec == Init /\ [][Next]_vars

(***************************************************************************)
(* The follow graph and the feed.                                          *)
(***************************************************************************)
NextFollow ==
    \/ \E u \in Clients, req \in PlainRequests : post_create(u, req)
    \/ \E u \in Clients, page \in PageParams : follow_index(u, page)
    \/ \E w \in Workers, u \in Clients, name \in Usernames :
           profile_follow(w, u, name)
    \/ \E w \in Workers : profile_follow_create(w)
    \/ \E u \in Clients, name \in Usernames : profile_unfollow(u, name)

SpecFollow == Init /\ [][NextFollow]_vars

(***************************************************************************)
(* Posts and comments.                                                     *)
(***************************************************************************)
NextPosts ==
    \/ \E u \in Clients, id \in PostIds : post_detail(u, id)
    \/ \E u \in Clients, req \in Requests : post_create(u, req)
    \/ \E u \in Clients, id \in PostIds, req \in FormRequests :
           post_edit(u, id, req)

SpecPosts == Init /\ [][NextPosts]_vars

NextComments ==
    \/ \E u \in Clients, id \in PostIds : post_detail(u, id)
    \/ \E u \in Clients, req \in PlainRequests : post_create(u, req)
    \/ \E u \in Clients, id \in PostIds, req \in CommentRequests :
           add_comment(u, id, req)

SpecComments == Init /\ [][NextComments]_vars

(***************************************************************************)
(* The index listing and its render cache.                                 *)
(***************************************************************************)
NextCache ==
    \/ \E u \in Clients, page \in PageParams : index(u, page)
    \/ \E u \in Clients, req \in PlainRequests : post_create(u, req)
    \/ DeleteAllPosts
    \/ CacheClear
    \/ Tick

SpecCache == Init /\ [][NextCache]_vars

(***************************************************************************)
(* Pagination of the listings: the tables hold a fixture of n posts (as    *)
(* bulk_create makes them), and the three listing views are requested      *)
(* with every kind of page parameter.                                      *)
(***************************************************************************)
\* The i-th post of the fixture; in a mixed fixture every other post is by
\* another author and in no group.
FixturePost(i, mixed) ==
    [id |-> i, text |-> "text", pub_date |-> i,
     author |-> IF mixed /\ i % 2 = 1 THEN "another_username" ELSE "username",
     group |-> IF mixed /\ i % 2 = 1 THEN NoGroup ELSE 1,
     image |-> NoImage]

InitPager ==
    /\ \E n \in 0..MaxListing, mixed \in BOOLEAN :
           /\ posts = {FixturePost(i, mixed) : i \in 1..n}
           /\ nextPostId = n + 1
    /\ comments = {}
    /\ nextCommentId = 1
    /\ follows = [pr \in Users \X Users |-> 0]
    /\ pending = [w \in Workers |-> Idle]
    /\ cache = NoCache
    /\ response = NoResponse

ListingPageParams ==
    {<<>>, <<"a", "b">>, <<"2", ".", "0">>, <<"0">>, <<"-", "1">>,
     <<"1">>, <<"2">>, <<"3">>, <<"4">>, <<"+", "2">>, <<"0", "3">>}

NextPager ==
    \/ \E u \in {AnonymousUser}, page \in ListingPageParams : index(u, page)
    \/ \E u \in {AnonymousUser}, slug \in Slugs, page \in ListingPageParams :
           group_posts(u, slug, page)
    \/ \E u \in {AnonymousUser}, name \in Usernames, page \in ListingPageParams :
           profile(u, name, page)

SpecPager == InitPager /\ [][NextPager]_vars

(***************************************************************************)
(* Properties of the follow graph and the feed.                            *)
(***************************************************************************)
Range(seq) == {seq[i] : i \in 1..Len(seq)}

\* C1: in every reachable state there is at most one Follow row per
\* (user, author) pair, also when profile_follow requests overlap.
C1_AtMostOneEdge == \A pr \in Users \X Users : follows[pr] <= 1

\* C2: a self-follow request leaves the Follow table unchanged and is
\* answered with a redirect to the target's profile, and no state holds a
\* Follow row whose user is its author.
C2_SelfFollowNoEdge ==
    [][/\ \A u \in Users : follows'[<<u, u>>] = 0
       /\ \A w \in Workers, u \in Users :
              (response'.view = "profile_follow" /\ profile_follow(w, u, u)) =>
                  /\ follows' = follows
                  /\ pending' = pending
                  /\ response'.status = 302
                  /\ response'.location = ProfileUrl(u)]_vars

\* A self-follow has just been answered, while other rows are in the table.
C2_Witness ==
    /\ response.view = "profile_follow"
    /\ response.status = 302
    /\ response.user \in Users
    /\ response.location = ProfileUrl(response.user)
    /\ TotalFollows > 0

\* C3: profile_unfollow(author) by u leaves no row (u, author), leaves the
\* rows of every other pair alone, changes nothing when there was no such
\* row (so a second unfollow is a no-op), and removes exactly one row when
\* exactly one existed.
C3_UnfollowIdempotentLocal ==
    [][\A u \in Users, a \in Users :
           (response'.view = "profile_unfollow" /\ profile_unfollow(u, a)) =>
               /\ follows'[<<u, a>>] = 0
               /\ \A pr \in Users \X Users :
                      pr # <<u, a>> => follows'[pr] = follows[pr]
               /\ follows[<<u, a>>] = 0 => follows' = follows
               /\ follows[<<u, a>>] = 1 => TotalFollows' = TotalFollows - 1
               /\ (response.view = "profile_unfollow" /\ response.user = u
                     /\ response.location = ProfileUrl(a)) => follows' = follows
               /\ response'.status = 302
               /\ response'.location = ProfileUrl(a)]_vars

\* An unfollow has just been answered: its pair has no row and the other
\* pair still has one.
C3_Witness ==
    /\ response.view = "profile_unfollow"
    /\ response.status = 302
    /\ response.user \in Users
    /\ follows[<<response.user, response.location.username>>] = 0
    /\ TotalFollows > 0

\* The query-string value that names page k.
PageParamOf(k) ==
    CASE k = 1 -> <<"1">> [] k = 2 -> <<"2">> [] k = 3 -> <<"3">>
      [] k = 4 -> <<"4">>

\* The posts on all pages of a listing.
AllPages(listing) ==
    UNION {Range(pager(PageParamOf(k), listing).object_list) :
               k \in 1..pager(<<>>, listing).num_pages}

\* The posts whose author the user follows now.
FollowedPosts(user) == {p \in posts : follows[<<user, p.author>>] > 0}

\* C8: the posts in a user's feed, over all pages, are exactly the posts
\* whose author the user currently follows, and a page of the feed that
\* follow_index has answered with holds only such posts.
C8_FeedIsFollowedPosts ==
    /\ \A u \in Users : AllPages(FeedOf(u)) = FollowedPosts(u)
    /\ (response.view = "follow_index" /\ response.status = 200) =>
           /\ Range(response.page_obj.object_list) \subseteq
                  FollowedPosts(response.user)
           /\ \E k \in 1..response.page_obj.num_pages :
                  response.page_obj = pager(PageParamOf(k), FeedOf(response.user))

\* follow_index has answered with a feed that holds a followed author's
\* post and leaves out the post of an author the user does not follow.
C8_Witness ==
    /\ response.view = "follow_index"
    /\ response.status = 200
    /\ response.page_obj.object_list # <<>>
    /\ \E p \in posts : p \notin Range(response.page_obj.object_list)

(***************************************************************************)
(* Properties of post creation, editing and comments.                      *)
(***************************************************************************)
PostExists(post_id) == \E p \in posts : p.id = post_id
PostById(post_id) == CHOOSE p \in posts : p.id = post_id

\* C4: an edit request (GET or POST, valid or not) by an authenticated user
\* who is not the post's author mutates no row and is answered with a
\* redirect to the post's detail page.
C4_NonAuthorEditRejected ==
    [][response'.view = "post_edit" =>
           \A u \in Users, id \in PostIds, req \in FormRequests :
               (response'.user = u /\ PostExists(id) /\ PostById(id).author # u
                   /\ post_edit(u, id, req)) =>
                   /\ UNCHANGED <<posts, comments, follows>>
                   /\ response'.status = 302
                   /\ response'.location = DetailUrl(id)]_vars

\* A user who is not the author of an existing post has just had an edit
\* of it answered.
C4_Witness ==
    /\ response.view = "post_edit"
    /\ response.status = 302
    /\ response.user \in Users
    /\ PostExists(response.location.post_id)
    /\ PostById(response.location.post_id).author # response.user

\* A submission the post form accepts: text given, group empty or existing.
ValidPostSubmission(req) ==
    req.method = "POST" /\ req.text # "" /\ req.group \in {NoGroup} \cup Groups

\* C5: a valid submission to post_create by an authenticated user adds
\* exactly one post, whose author is the submitting user whatever the
\* submitted data, and redirects to that user's profile; an invalid one
\* creates no post.
C5_CreateAddsOwnPost ==
    [][response'.view = "post_create" =>
           \A u \in Users, req \in Requests :
               (response'.user = u /\ post_create(u, req)) =>
                   IF ValidPostSubmission(req)
                   THEN /\ Cardinality(posts') = Cardinality(posts) + 1
                        /\ \E p \in posts' \ posts :
                               /\ posts' = posts \cup {p}
                               /\ p.author = u
                               /\ p.text = req.text
                        /\ response'.status = 302
                        /\ response'.location = ProfileUrl(u)
                   ELSE /\ posts' = posts
                        /\ response'.status = 200]_vars

\* A post_create has just been answered with the redirect to the profile
\* of the submitting user, who now has a post.
C5_Witness ==
    /\ response.view = "post_create"
    /\ response.status = 302
    /\ response.user \in Users
    /\ response.location = ProfileUrl(response.user)
    /\ \E p \in posts : p.author = response.user

\* What C6 promises of a comment request.
CommentAdded(u, id, req) ==
    /\ Cardinality(comments') = Cardinality(comments) + 1
    /\ \E c \in comments' \ comments :
           /\ comments' = comments \cup {c}
           /\ c.author = u
           /\ c.post = id
           /\ c.text = req.text
    /\ response'.status = 302
    /\ response'.location = DetailUrl(id)

\* C6 as stated: every comment submission by an authenticated user on an
\* existing post adds exactly one comment, attributed to that user and
\* that post, and redirects to the post's detail page.
C6_EverySubmissionAddsComment ==
    [][response'.view = "add_comment" =>
           \A u \in Users, id \in PostIds, req \in CommentRequests :
               (response'.user = u /\ PostExists(id) /\ req.method = "POST"
                   /\ add_comment(u, id, req)) =>
                   CommentAdded(u, id, req)]_vars

\* C6, amended: every valid comment submission (one with a text) by an
\* authenticated user on an existing post adds exactly one comment,
\* attributed to that user and that post, and redirects to the post's
\* detail page; a submission without text adds no comment and gets the
\* same redirect.
C6_ValidSubmissionAddsComment ==
    [][response'.view = "add_comment" =>
           \A u \in Users, id \in PostIds, req \in CommentRequests :
               (response'.user = u /\ PostExists(id) /\ req.method = "POST"
                   /\ add_comment(u, id, req)) =>
                   IF req.text # ""
                   THEN CommentAdded(u, id, req)
                   ELSE /\ comments' = comments
                        /\ response'.status = 302
                        /\ response'.location = DetailUrl(id)]_vars

\* A comment request has just been answered and its comment is stored, on
\* the second post and by a user who is not that post's author.
C6_Witness ==
    /\ response.view = "add_comment"
    /\ response.status = 302
    /\ \E c \in comments :
           /\ c.author = response.user
           /\ c.post = response.location.post_id
           /\ c.post = 2
           /\ PostById(c.post).author # c.author

(***************************************************************************)
(* Properties of the login requirement.                                    *)
(***************************************************************************)
\* The answer to an anonymous request for path: the login page with next,
\* and no table touched.
SentToLogin(path) ==
    /\ response'.status = 302
    /\ response'.location = LOGIN_URL
    /\ response'.next = path
    /\ UNCHANGED <<posts, comments, follows, pending>>

\* C7: an unauthenticated request to post_create, post_edit, add_comment,
\* follow_index, profile_follow or profile_unfollow is answered with a
\* redirect to the login page whose next parameter is the requested path,
\* and leaves the Post, Comment and Follow tables unchanged.
C7_AnonymousSentToLogin ==
    [][response'.user = AnonymousUser =>
           /\ response'.view = "post_create" =>
                  \A req \in PlainRequests :
                      post_create(AnonymousUser, req) =>
                          SentToLogin(Url("posts:post_create", 0, "", ""))
           /\ response'.view = "post_edit" =>
                  \A id \in PostIds, req \in PlainRequests :
                      post_edit(AnonymousUser, id, req) =>
                          SentToLogin(Url("posts:post_edit", id, "", ""))
           /\ response'.view = "add_comment" =>
                  \A id \in PostIds, req \in PlainRequests :
                      add_comment(AnonymousUser, id, req) =>
                          SentToLogin(Url("posts:add_comment", id, "", ""))
           /\ response'.view = "follow_index" =>
                  \A page \in PageParams :
                      follow_index(AnonymousUser, page) =>
                          SentToLogin(Url("posts:follow_index", 0, "", ""))
           /\ response'.view = "profile_follow" =>
                  \A name \in Usernames, w \in Workers :
                      profile_follow(w, AnonymousUser, name) =>
                          SentToLogin(Url("posts:profile_follow", 0, name, ""))
           /\ response'.view = "profile_unfollow" =>
                  \A name \in Usernames :
                      profile_unfollow(AnonymousUser, name) =>
                          SentToLogin(Url("posts:profile_unfollow", 0, name, ""))]_vars

\* An anonymous comment submission on an existing post has just been sent
\* to the login page, and the post has no comment.
C7_Witness ==
    /\ response.user = AnonymousUser
    /\ response.location = LOGIN_URL
    /\ response.next.name = "posts:add_comment"
    /\ PostExists(response.next.post_id)
    /\ \A c \in comments : c.post # response.next.post_id

(***************************************************************************)
(* Properties of the render cache of the index listing.                    *)
(***************************************************************************)
\* C9: once the index page has been rendered, deleting all posts leaves the
\* cached bytes alone, and every later index response carries the bytes of
\* the earlier one for as long as the cache entry is neither expired nor
\* cleared; without a cache entry the response is rendered from the
\* current store (an empty listing when there are no posts).
C9_CachedIndex ==
    [][/\ DeleteAllPosts => cache' = cache
       /\ response'.view = "index" =>
              \A u \in Clients, page \in PageParams :
                  index(u, page) =>
                      IF cache.valid
                      THEN /\ response'.content = cache.content
                           /\ response.view = "index" =>
                                  response'.content = response.content
                      ELSE /\ Range(response'.content) \subseteq posts
                           /\ (posts = {}) <=> (response'.content = <<>>)
                           /\ response'.content =
                                  pager(page, OrderedPosts(posts)).object_list]_vars

\* An index request made after all posts were deleted (and another post
\* was created) has been answered with the cached listing of posts that
\* are no longer stored.
C9_Witness ==
    /\ response.view = "index"
    /\ response.content # <<>>
    /\ posts # {}
    /\ Range(response.content) \cap posts = {}
    /\ cache.valid

(***************************************************************************)
(* Properties of pagination.                                               *)
(***************************************************************************)
Min(a, b) == IF a < b THEN a ELSE b

\* Page k of a listing exists.
ValidPage(listing, k) == k = 1 \/ (k - 1) * PAGE_NUM < Len(listing)

\* page_obj is page k of the listing: the next min(PAGE_NUM, n - (k-1)*PAGE_NUM)
\* items after the first (k-1)*PAGE_NUM.
ExactPage(listing, k, page_obj) ==
    LET size == Min(PAGE_NUM, Len(listing) - (k - 1) * PAGE_NUM)
    IN  /\ page_obj.number = k
        /\ Len(page_obj.object_list) = size
        /\ Len(page_obj.object_list) <= PAGE_NUM
        /\ \A i \in 1..size :
               page_obj.object_list[i] = listing[(k - 1) * PAGE_NUM + i]
        /\ (Len(listing) = 13 /\ k = 1) => Len(page_obj.object_list) = 10
        /\ (Len(listing) = 13 /\ k = 2) => Len(page_obj.object_list) = 3

\* The first k pages of a listing, one after the other.
RECURSIVE PagesUpTo(_, _)
PagesUpTo(listing, k) ==
    IF k = 0 THEN <<>>
    ELSE PagesUpTo(listing, k - 1) \o pager(PageParamOf(k), listing).object_list

\* All pages of a listing, taken in order, are the listing.
PagesPartition(listing) ==
    PagesUpTo(listing, pager(<<>>, listing).num_pages) = listing

\* The listing a listing view has paged for its response.
ListingOf(resp) ==
    CASE resp.view = "index" -> OrderedPosts(posts)
      [] resp.view = "group_posts" -> GroupPosts(resp.group)
      [] resp.view = "profile" -> AuthorPosts(resp.author)

\* Every valid page of the listing is exact, and the pages partition it.
PagedExactly(listing) ==
    /\ PagesPartition(listing)
    /\ \A k \in 1..4 :
           ValidPage(listing, k) =>
               ExactPage(listing, k, pager(PageParamOf(k), listing))

\* C10: in the index, group and profile listings a valid page k holds
\* exactly min(PAGE_NUM, n - (k-1)*PAGE_NUM) items, never more than
\* PAGE_NUM, the pages in order partition the listing, and of 13 posts page
\* 1 holds 10 and page 2 holds 3; the page a listing view has answered with
\* is such a page of its listing.
C10_PagesPartitionListing ==
    /\ PagedExactly(OrderedPosts(posts))
    /\ \A g \in Groups : PagedExactly(GroupPosts(g))
    /\ \A a \in Users : PagedExactly(AuthorPosts(a))
    /\ (response.view \in {"index", "group_posts", "profile"}
          /\ response.status = 200) =>
           LET listing == ListingOf(response)
           IN  /\ ValidPage(listing, response.page_obj.number)
               /\ ExactPage(listing, response.page_obj.number, response.page_obj)

\* The second page of the index of 13 posts has been served, with 3 items.
C10_Witness ==
    /\ Cardinality(posts) = 13
    /\ response.view = "index"
    /\ response.page_obj.number = 2
    /\ Len(response.page_obj.object_list) = 3

(***************************************************************************)
(* Bad page parameters.                                                    *)
(***************************************************************************)
\* The valid page nearest to the requested one: page 1 for a parameter that
\* is missing or no integer, page 1 for a number below 1, the last page for
\* a number above the last page.
NearestValidPage(page, listing) ==
    LET n    == PyInt(page)
        last == NumPages(Len(listing), PAGE_NUM)
    IN  IF ~n.ok THEN 1
        ELSE IF n.value < 1 THEN 1
        ELSE IF n.value > last THEN last
        ELSE n.value

\* C11: the pager never fails on a bad page parameter: a listing view asked
\* for a missing or non-integer page answers with page 1, asked for a number
\* above the last page with the last page, and asked for a number below 1
\* with page 1.
C11_PagerClampsToNearest ==
    [][\A page \in ListingPageParams :
          /\ (response'.view = "index" /\ index(AnonymousUser, page)) =>
                 /\ response'.status = 200
                 /\ response'.page_obj.number =
                        NearestValidPage(page, OrderedPosts(posts))
          /\ \A g \in Groups :
                 (response'.view = "group_posts"
                    /\ group_posts(AnonymousUser, SlugOf(g), page)) =>
                     /\ response'.status = 200
                     /\ response'.page_obj.number =
                            NearestValidPage(page, GroupPosts(g))
          /\ \A a \in Users :
                 (response'.view = "profile"
                    /\ profile(AnonymousUser, a, page)) =>
                     /\ response'.status = 200
                     /\ response'.page_obj.number =
                            NearestValidPage(page, AuthorPosts(a))]_vars

(***************************************************************************)
(* Unknown targets.                                                        *)
(***************************************************************************)
\* The views that name a target (a group, a user or a post), requested by one
\* logged-in client and by a guest with known and unknown targets, and
\* post_create to fill the Post table; follow requests do not overlap here.
NextTargets ==
    \/ \E u \in Visitors, slug \in Slugs : group_posts(u, slug, <<>>)
    \/ \E u \in Visitors, name \in Usernames : profile(u, name, <<>>)
    \/ \E u \in Visitors, id \in PostIds : post_detail(u, id)
    \/ \E u \in Visitors, req \in PlainRequests : post_create(u, req)
    \/ \E u \in Visitors, id \in PostIds, req \in PlainRequests :
           post_edit(u, id, req)
    \/ \E u \in Visitors, id \in PostIds, req \in PlainRequests :
           add_comment(u, id, req)
    \/ \E u \in Visitors, name \in Usernames : profile_follow(1, u, name)
    \/ profile_follow_create(1)
    \/ \E u \in Visitors, name \in Usernames : profile_unfollow(u, name)

SpecTargets == Init /\ [][NextTargets]_vars

\* The answer to a request for a target that does not exist: 404, and no
\* table touched.
NotFoundNoChange ==
    /\ response'.status = 404
    /\ UNCHANGED <<posts, comments, follows, pending>>

\* C12: a request naming an unknown target fails with NotFound and changes
\* nothing: for an authenticated caller group_posts with an unknown slug,
\* profile, profile_follow and profile_unfollow with an unknown username,
\* and post_detail, post_edit and add_comment with an unknown post id
\* answer 404 and no Post, Comment or Follow row is created, changed or
\* removed; an anonymous caller of post_edit, add_comment, profile_follow or
\* profile_unfollow is sent to the login page instead, whether or not the
\* target exists.
C12_UnknownTargetNotFound ==
    [][/\ response'.user \in Users =>
           LET u == response'.user
           IN  /\ response'.view = "group_posts" =>
                      \A page \in PageParams :
                          group_posts(u, UnknownSlug, page) => NotFoundNoChange
               /\ response'.view = "profile" =>
                      \A page \in PageParams :
                          profile(u, UnknownUser, page) => NotFoundNoChange
               /\ response'.view = "profile_follow" =>
                      \A w \in Workers :
                          profile_follow(w, u, UnknownUser) => NotFoundNoChange
               /\ response'.view = "profile_unfollow" =>
                      (profile_unfollow(u, UnknownUser) => NotFoundNoChange)
               /\ response'.view = "post_detail" =>
                      \A id \in PostIds :
                          (~PostExists(id) /\ post_detail(u, id)) =>
                              NotFoundNoChange
               /\ response'.view = "post_edit" =>
                      \A id \in PostIds, req \in PlainRequests :
                          (~PostExists(id) /\ post_edit(u, id, req)) =>
                              NotFoundNoChange
               /\ response'.view = "add_comment" =>
                      \A id \in PostIds, req \in PlainRequests :
                          (~PostExists(id) /\ add_comment(u, id, req)) =>
                              NotFoundNoChange
       /\ response'.user = AnonymousUser =>
               /\ response'.view = "post_edit" =>
                      \A id \in PostIds, req \in PlainRequests :
                          post_edit(AnonymousUser, id, req) =>
                              /\ response'.status # 404
                              /\ SentToLogin(Url("posts:post_edit", id, "", ""))
               /\ response'.view = "add_comment" =>
                      \A id \in PostIds, req \in PlainRequests :
                          add_comment(AnonymousUser, id, req) =>
                              /\ response'.status # 404
                              /\ SentToLogin(Url("posts:add_comment", id, "", ""))
               /\ response'.view = "profile_follow" =>
                      \A name \in Usernames, w \in Workers :
                          profile_follow(w, AnonymousUser, name) =>
                              /\ response'.status # 404
                              /\ SentToLogin(Url("posts:profile_follow", 0, name, ""))
               /\ response'.view = "profile_unfollow" =>
                      \A name \in Usernames :
                          profile_unfollow(AnonymousUser, name) =>
                              /\ response'.status # 404
                              /\ SentToLogin(Url("posts:profile_unfollow", 0, name, ""))]_vars

\* A logged-in user who has posts and comments in the tables has just been
\* answered 404 for unfollowing a user that does not exist.
C12_Witness ==
    /\ response.user \in Users
    /\ response.view = "profile_unfollow"
    /\ response.status = 404
    /\ posts # {}
    /\ comments # {}

(***************************************************************************)
(* Properties of editing.                                                  *)
(***************************************************************************)
\* What a valid edit of post id with the submission req leaves behind: the
\* same number of posts, the post with its id, author and creation
\* timestamp and the submitted text and group, every other post and every
\* comment and follow as it was, and a redirect to the detail page.
EditedInPlace(id, req) ==
    LET old == PostById(id)
    IN  /\ Cardinality(posts') = Cardinality(posts)
        /\ \E new \in posts' :
               /\ new.id = id
               /\ new.author = old.author
               /\ new.pub_date = old.pub_date
               /\ new.text = req.text
               /\ new.group = req.group
               /\ new.image \in {old.image, req.image}
               /\ posts' \ {new} = posts \ {old}
        /\ UNCHANGED <<comments, follows>>
        /\ response'.status = 302
        /\ response'.location = DetailUrl(id)

\* C13: a valid edit by the post's author persists in place: the number of
\* posts is unchanged, the edited post keeps its id, author and creation
\* timestamp, only its text, group and image change, every other post is
\* unchanged and the response redirects to the post's detail page; and in
\* no step of any operation does an existing post's author or creation
\* timestamp change.
C13_EditInPlace ==
    [][/\ response'.view = "post_edit" =>
              \A u \in Users, id \in PostIds, req \in FormRequests :
                  (response'.user = u /\ PostExists(id) /\ PostById(id).author = u
                      /\ ValidPostSubmission(req) /\ post_edit(u, id, req)) =>
                      EditedInPlace(id, req)
       /\ \A p \in posts : \A q \in posts' :
              q.id = p.id => (q.author = p.author /\ q.pub_date = p.pub_date)]_vars

\* The author of a post has just had a valid edit of it answered: the post
\* carries the edited text and the uploaded image, and another post exists.
C13_Witness ==
    /\ response.view = "post_edit"
    /\ response.status = 302
    /\ response.user \in Users
    /\ PostExists(response.location.post_id)
    /\ PostById(response.location.post_id).author = response.user
    /\ PostById(response.location.post_id).text = "edited"
    /\ Cardinality(posts) >= 2

(***************************************************************************)
(* Repetitions in the feed.                                                *)
(***************************************************************************)
\* C14: the feed lists each post at most once: in every state reachable
\* through follow, unfollow and post creation requests, the feed of a user
\* holds every post of a followed author exactly once, so its length is the
\* number of distinct posts by followed authors, and a page of the feed
\* that follow_index has answered with repeats no post.
C14_FeedListsEachPostOnce ==
    /\ \A u \in Users :
           /\ Len(FeedOf(u)) = Cardinality(FollowedPosts(u))
           /\ \A i, j \in 1..Len(FeedOf(u)) :
                  FeedOf(u)[i] = FeedOf(u)[j] => i = j
    /\ (response.view = "follow_index" /\ response.status = 200) =>
           \A i, j \in 1..Len(response.page_obj.object_list) :
               response.page_obj.object_list[i] = response.page_obj.object_list[j]
                   => i = j

====
